---- MODULE Spec2Model ----
(***************************************************************************)
(* Bernoulli bandit, the agents (Random, epsilon-greedy, UCB1, Thompson    *)
(* sampling) and the regret-evaluation loop get_regret of                  *)
(* week6_outro/bandits.ipynb, as a state machine.                          *)
(*                                                                         *)
(* Numbers.  A probability or a uniform draw x in [0,1) is the integer     *)
(* x*Grid in 0..Grid-1; a reward 0.0 / 1.0 is the integer 0 / 1; a regret  *)
(* bucket holds numerators over the denominator scores[..].den.  The       *)
(* success and failure counts are the integral floats of np.zeros.  A NaN  *)
(* of the numpy arithmetic (0/0, sqrt(-inf)) is kept as a set of NaN       *)
(* positions, and np.argmax returns the first NaN position when there is   *)
(* one.  Arms are numbered from 0 as in the source.                        *)
(***************************************************************************)
EXTENDS Integers, Sequences, FiniteSets, TLC

\* Bounds of the model: the arms, the steps of a trial, the trials, the rounds
\* n_steps * n_trials of one run, and the points of [0,1) that are told apart.
MaxArms == 2
MaxSteps == 3
MaxTrials == 2
MaxRounds == 4
Grid == 2

\* epsilon = 0.01 = EpsilonNum / EpsilonDen, the default of EpsilonGreedyAgent.
EpsilonNum == 1
EpsilonDen == 100

None == -1
NoArr == << >>

\* The agent lists get_regret is run with.
AgentLists ==
    { << "RandomAgent" >>,
      << "EpsilonGreedyAgent" >>,
      << "UCBAgent" >>,
      << "ThompsonSamplingAgent" >>,
      << "UCBAgent", "UCBAgent" >> }

VARIABLES
    probs,          \* BernoulliBandit._probs
    rng,            \* how many numbers the global np.random stream has handed out
    agents,         \* the list of agents (their classes), in list order
    n_steps,        \* get_regret's n_steps
    n_trials,       \* get_regret's n_trials
    successes,      \* agent index -> _successes
    failures,       \* agent index -> _failures
    total_pulls,    \* agent index -> _total_pulls
    rec_s,          \* agent index -> arm -> rewards == 1 passed to update since init_actions
    rec_f,          \* agent index -> arm -> rewards # 1 passed to update since init_actions
    scores,         \* name -> [val: the per-step buckets, den: their denominator]
    regret_of,      \* agent index -> step -> the sum of optimal_reward - reward it obtained
    rounds,         \* agent index -> get_action / pull / update rounds done in the run
    trial,          \* trials completed so far
    i,              \* the step of the trial
    ai,             \* position in the agent list of the running for-loop
    pc,             \* the call get_regret makes next
    optimal_reward, \* get_regret's local
    action,         \* get_regret's local
    reward,         \* get_regret's local
    u,              \* the uniform value pull drew
    draw,           \* the uniform value EpsilonGreedyAgent.get_action drew
    den,            \* the divisors successes+failures of the last get_action
    log_arg,        \* the argument of np.log in the last get_action
    beta,           \* arm -> the parameters of np.random.beta in the last get_action
    theta           \* ThompsonSamplingAgent.get_action's local list

cfg == << agents, n_steps, n_trials >>
counters == << successes, failures, total_pulls, rec_s, rec_f >>
locals == << action, reward, u, draw, den, log_arg, beta, theta >>
history == << regret_of, rounds >>
vars ==
    << probs, rng, cfg, counters, scores, history, trial, i, ai, pc, optimal_reward,
       locals >>

----------------------------------------------------------------------------
\* Helpers of the numpy calls.

Arms(n) == 0 .. (n - 1)

Unit == 0 .. (Grid - 1)

Zeros(n) == [a \in Arms(n) |-> 0]

SetMin(S) == CHOOSE x \in S : \A y \in S : x <= y

np_nanargmax(v, nan) ==
    IF nan = DOMAIN v
    THEN None
    ELSE CHOOSE a \in DOMAIN v \ nan :
            \A b \in DOMAIN v \ nan : IF b < a THEN v[a] > v[b] ELSE v[a] >= v[b]

\* np.argmax of the array v whose positions nan hold NaN: the first NaN
\* position when there is one, else the first position holding the maximum.
np_argmax(v, nan) ==
    IF nan # {}
    THEN SetMin(nan)
    ELSE CHOOSE a \in DOMAIN v :
            \A b \in DOMAIN v : IF b < a THEN v[a] > v[b] ELSE v[a] >= v[b]

RECURSIVE ProdUpTo(_, _)
ProdUpTo(v, k) == IF k < 0 THEN 1 ELSE v[k] * ProdUpTo(v, k - 1)

\* The quotients s[a]/n[a], all n[a] > 0, over their common denominator.
Quotients(s, n) ==
    LET P == ProdUpTo(n, Cardinality(DOMAIN n) - 1)
    IN  [a \in DOMAIN s |-> IF n[a] = 0 THEN 0 ELSE s[a] * (P \div n[a])]

RECURSIVE MaxUpTo(_, _)
MaxUpTo(p, k) ==
    IF k = 0 THEN p[0]
    ELSE LET m == MaxUpTo(p, k - 1) IN IF p[k] > m THEN p[k] ELSE m

np_max(p) == MaxUpTo(p, Cardinality(DOMAIN p) - 1)

RECURSIVE SumUpTo(_, _)
SumUpTo(v, k) == IF k < 0 THEN 0 ELSE v[k] + SumUpTo(v, k - 1)

np_cumsum(v) == [j \in DOMAIN v |-> SumUpTo(v, j)]

----------------------------------------------------------------------------
\* BernoulliBandit

action_count(p) == Cardinality(DOMAIN p)

pull_strict(p, a, x) == IF x >= p[a] THEN 0 ELSE 1

pull(p, a, x) == IF x > p[a] THEN 0 ELSE 1

env_min_reward(p) == - np_max([a \in DOMAIN p |-> - p[a]])

env_optimal_reward(p) == np_max(p)

env_step_drift(p) == [a \in DOMAIN p |-> (p[a] + 1) % Grid]

env_step(p) == p

env_reset_redrawn(p) == [a \in DOMAIN p |-> (p[a] + 1) % Grid]

env_reset(p) == p

----------------------------------------------------------------------------
\* AbstractAgent

name(kind) ==
    IF kind = "EpsilonGreedyAgent" THEN "EpsilonGreedyAgent(epsilon=0.01)" ELSE kind

init_actions_ones(n) ==
    [successes |-> [a \in Arms(n) |-> 1], failures |-> [a \in Arms(n) |-> 1],
     total_pulls |-> 0]

init_actions(n) ==
    [successes |-> Zeros(n), failures |-> Zeros(n), total_pulls |-> 0]

update_always_success(s, f, t, a, r) ==
    [successes |-> [s EXCEPT ![a] = @ + 1], failures |-> f, total_pulls |-> t + 1]

update(s, f, t, a, r) ==
    [successes   |-> IF r = 1 THEN [s EXCEPT ![a] = @ + 1] ELSE s,
     failures    |-> IF r = 1 THEN f ELSE [f EXCEPT ![a] = @ + 1],
     total_pulls |-> t + 1]

----------------------------------------------------------------------------
\* The get_action of each agent.  Each yields the arm, the counts as the call
\* leaves them, the number of random draws it took and what it computed.

Result(a, s, f, n, d, l, b, th) ==
    [action |-> a, successes |-> s, failures |-> f, draws |-> n,
     den |-> d, log_arg |-> l, beta |-> b, theta |-> th]

\* r: the value of np.random.randint(0, K)
Random_get_action(s, f, r) == Result(r, s, f, 1, NoArr, None, NoArr, NoArr)

\* x: the value of np.random.random(); r: the value of np.random.randint(0, K)
EpsilonGreedy_get_action(s, f, x, r) ==
    IF x * EpsilonDen < EpsilonNum * Grid
    THEN Result(r, s, f, 2, NoArr, None, NoArr, NoArr)
    ELSE LET n == [a \in DOMAIN s |-> s[a] + f[a]]
             \* 0/0 = nan
             nan == {a \in DOMAIN s : n[a] = 0}
         IN  Result(np_argmax(Quotients(s, n), nan), s, f, 1, n, None, NoArr, NoArr)

\* ln(t) * 10^8 for t = 1 .. 16
LnTable ==
    << 0, 69314718, 109861229, 138629436, 160943791, 179175947, 194591015,
       207944154, 219722458, 230258509, 239789527, 248490665, 256494936,
       263905733, 270805020, 277258872 >>

RECURSIVE SqrtSearch(_, _, _)
SqrtSearch(n, lo, hi) ==
    IF hi - lo <= 1 THEN lo
    ELSE LET mid == (lo + hi) \div 2
         IN  IF mid * mid <= n THEN SqrtSearch(n, mid, hi) ELSE SqrtSearch(n, lo, mid)

ISqrt(n) == SqrtSearch(n, 0, 32768)

\* (s/n + sqrt(2 ln t / n)) * 10^4 for n >= 1, t >= 1, rounded down.  On the
\* counts of arms pulled t <= 16 times in all it orders as the doubles do.
UCBIndex(s, n, t) == (s * 10000) \div n + ISqrt((2 * LnTable[t]) \div n)

UCB_nan_as_zero(s, f, t) ==
    LET n == [a \in DOMAIN s |-> s[a] + f[a]]
        nan == {a \in DOMAIN s : n[a] = 0 \/ t = 0}
        w == [a \in DOMAIN s |-> IF a \in nan THEN 0 ELSE UCBIndex(s[a], n[a], t)]
    IN  Result(np_argmax(w, {}), s, f, 0, n, t, NoArr, NoArr)

UCB_get_action(s, f, t) ==
    LET n == [a \in DOMAIN s |-> s[a] + f[a]]
        \* log(0) = -inf and sqrt(-inf / n) = nan; 0/0 = nan
        nan == {a \in DOMAIN s : n[a] = 0 \/ t = 0}
        w == [a \in DOMAIN s |-> IF a \in nan THEN 0 ELSE UCBIndex(s[a], n[a], t)]
    IN  Result(np_argmax(w, nan), s, f, 0, n, t, NoArr, NoArr)

\* th: the values of np.random.beta, one per arm
Thompson_no_overwrite(s, f, th) ==
    Result(np_argmax(th, {}), s, f, Cardinality(DOMAIN s),
           NoArr, None, [a \in DOMAIN s |-> << s[a], f[a] >>], th)

Thompson_get_action(s, f, th) ==
    LET s2 == [a \in DOMAIN s |-> IF s[a] * f[a] = 0 THEN 1 ELSE s[a]]
        f2 == [a \in DOMAIN s |-> IF s[a] * f[a] = 0 THEN 1 ELSE f[a]]
    IN  Result(np_argmax(th, {}), s2, f2, Cardinality(DOMAIN s),
               NoArr, None, [a \in DOMAIN s |-> << s2[a], f2[a] >>], th)

----------------------------------------------------------------------------
\* get_regret

NAgents == Len(agents)

K == action_count(probs)

Init ==
    /\ probs \in UNION { [Arms(k) -> Unit] : k \in 0 .. MaxArms }
    /\ rng = action_count(probs)
    /\ agents \in AgentLists
    /\ n_steps \in 0 .. MaxSteps
    /\ n_trials \in 0 .. MaxTrials
    /\ n_steps * n_trials <= MaxRounds
    /\ successes = [k \in 1 .. Len(agents) |-> NoArr]
    /\ failures = [k \in 1 .. Len(agents) |-> NoArr]
    /\ total_pulls = [k \in 1 .. Len(agents) |-> None]
    /\ rec_s = [k \in 1 .. Len(agents) |-> NoArr]
    /\ rec_f = [k \in 1 .. Len(agents) |-> NoArr]
    /\ scores = [nm \in { name(agents[k]) : k \in 1 .. Len(agents) } |->
                    [val |-> Zeros(n_steps), den |-> Grid]]
    /\ regret_of = [k \in 1 .. Len(agents) |-> Zeros(n_steps)]
    /\ rounds = [k \in 1 .. Len(agents) |-> 0]
    /\ trial = 0
    /\ i = 0
    /\ ai = 1
    /\ pc = IF n_trials > 0 THEN "reset" ELSE "cumsum"
    /\ optimal_reward = None
    /\ action = None
    /\ reward = None
    /\ u = None
    /\ draw = None
    /\ den = NoArr
    /\ log_arg = None
    /\ beta = NoArr
    /\ theta = NoArr

\* The trial's for-loop over the steps is exhausted: the next trial, or the
\* closing loop.
EndTrial ==
    /\ trial' = trial + 1
    /\ pc' = IF trial + 1 < n_trials THEN "reset" ELSE "cumsum"

\* env.reset()
Reset ==
    /\ pc = "reset"
    /\ probs' = env_reset(probs)
    /\ pc' = "init_actions"
    /\ ai' = 1
    /\ UNCHANGED << rng, cfg, counters, scores, history, trial, i, optimal_reward,
                    locals >>

\* a.init_actions(env.action_count), for the agent at ai
InitActions ==
    /\ pc = "init_actions"
    /\ LET st == init_actions(action_count(probs))
       IN  /\ successes' = [successes EXCEPT ![ai] = st.successes]
           /\ failures' = [failures EXCEPT ![ai] = st.failures]
           /\ total_pulls' = [total_pulls EXCEPT ![ai] = st.total_pulls]
    /\ rec_s' = [rec_s EXCEPT ![ai] = Zeros(K)]
    /\ rec_f' = [rec_f EXCEPT ![ai] = Zeros(K)]
    /\ IF ai < NAgents
       THEN /\ ai' = ai + 1
            /\ UNCHANGED << pc, i, trial >>
       ELSE /\ ai' = 1
            /\ i' = 0
            /\ IF n_steps > 0
               THEN pc' = "optimal_reward" /\ UNCHANGED trial
               ELSE EndTrial
    /\ UNCHANGED << probs, rng, cfg, scores, history, optimal_reward, locals >>

\* optimal_reward = env.optimal_reward(); np.max of an empty array raises
OptimalReward ==
    /\ pc = "optimal_reward"
    /\ IF K = 0
       THEN pc' = "error" /\ UNCHANGED optimal_reward
       ELSE pc' = "get_action" /\ optimal_reward' = env_optimal_reward(probs)
    /\ ai' = 1
    /\ UNCHANGED << probs, rng, cfg, counters, scores, history, trial, i, locals >>

\* What every get_action leaves behind.
Chosen(res) ==
    /\ action' = res.action
    /\ successes' = [successes EXCEPT ![ai] = res.successes]
    /\ failures' = [failures EXCEPT ![ai] = res.failures]
    /\ rng' = rng + res.draws
    /\ den' = res.den
    /\ log_arg' = res.log_arg
    /\ beta' = res.beta
    /\ theta' = res.theta
    /\ pc' = "pull"
    /\ UNCHANGED << probs, cfg, total_pulls, rec_s, rec_f, scores, history, trial, i,
                    ai, optimal_reward, reward, u >>

GetActionRandom ==
    /\ pc = "get_action"
    /\ agents[ai] = "RandomAgent"
    /\ \E r \in Arms(K) :
          Chosen(Random_get_action(successes[ai], failures[ai], r))
    /\ UNCHANGED draw

GetActionEpsilonGreedy ==
    /\ pc = "get_action"
    /\ agents[ai] = "EpsilonGreedyAgent"
    /\ \E x \in Unit, r \in Arms(K) :
          /\ draw' = x
          /\ Chosen(EpsilonGreedy_get_action(successes[ai], failures[ai], x, r))

GetActionUCB ==
    /\ pc = "get_action"
    /\ agents[ai] = "UCBAgent"
    /\ Chosen(UCB_get_action(successes[ai], failures[ai], total_pulls[ai]))
    /\ UNCHANGED draw

GetActionThompson ==
    /\ pc = "get_action"
    /\ agents[ai] = "ThompsonSamplingAgent"
    /\ \E th \in [Arms(K) -> Unit] :
          Chosen(Thompson_get_action(successes[ai], failures[ai], th))
    /\ UNCHANGED draw

\* reward = env.pull(action)
Pull ==
    /\ pc = "pull"
    /\ \E x \in Unit :
          /\ u' = x
          /\ reward' = pull(probs, action, x)
    /\ rng' = rng + 1
    /\ draw' = None
    /\ den' = NoArr
    /\ log_arg' = None
    /\ beta' = NoArr
    /\ theta' = NoArr
    /\ pc' = "update"
    /\ UNCHANGED << probs, cfg, counters, scores, history, trial, i, ai,
                    optimal_reward, action >>

\* agent.update(action, reward)
Update ==
    /\ pc = "update"
    /\ LET st == update(successes[ai], failures[ai], total_pulls[ai], action, reward)
       IN  /\ successes' = [successes EXCEPT ![ai] = st.successes]
           /\ failures' = [failures EXCEPT ![ai] = st.failures]
           /\ total_pulls' = [total_pulls EXCEPT ![ai] = st.total_pulls]
    /\ rec_s' = IF reward = 1 THEN [rec_s EXCEPT ![ai][action] = @ + 1] ELSE rec_s
    /\ rec_f' = IF reward = 1 THEN rec_f ELSE [rec_f EXCEPT ![ai][action] = @ + 1]
    /\ rounds' = [rounds EXCEPT ![ai] = @ + 1]
    /\ u' = None
    /\ pc' = "score"
    /\ UNCHANGED << probs, rng, cfg, scores, regret_of, trial, i, ai, optimal_reward,
                    action, reward, draw, den, log_arg, beta, theta >>

Score_skips_agents ==
    /\ pc = "score"
    /\ scores' = [scores EXCEPT ![name(agents[ai])].val[i] =
                                     @ + (optimal_reward - Grid * reward)]
    /\ regret_of' = [regret_of EXCEPT ![ai][i] = @ + (optimal_reward - Grid * reward)]
    /\ action' = None
    /\ reward' = None
    /\ ai' = 1
    /\ pc' = "step"
    /\ UNCHANGED << probs, rng, cfg, counters, rounds, trial, i, optimal_reward,
                    u, draw, den, log_arg, beta, theta >>

\* scores[agent.name][i] += optimal_reward - reward; the next agent, or env.step()
Score ==
    /\ pc = "score"
    /\ scores' = [scores EXCEPT ![name(agents[ai])].val[i] =
                                     @ + (optimal_reward - Grid * reward)]
    /\ regret_of' = [regret_of EXCEPT ![ai][i] = @ + (optimal_reward - Grid * reward)]
    /\ action' = None
    /\ reward' = None
    /\ IF ai < NAgents
       THEN ai' = ai + 1 /\ pc' = "get_action"
       ELSE ai' = 1 /\ pc' = "step"
    /\ UNCHANGED << probs, rng, cfg, counters, rounds, trial, i, optimal_reward,
                    u, draw, den, log_arg, beta, theta >>

Step_skips_last ==
    /\ pc = "step"
    /\ probs' = env_step(probs)
    /\ IF i + 2 < n_steps
       THEN i' = i + 1 /\ pc' = "optimal_reward" /\ UNCHANGED trial
       ELSE EndTrial /\ UNCHANGED i
    /\ UNCHANGED << rng, cfg, counters, scores, history, ai, optimal_reward, locals >>

\* env.step(); the next step, or the end of the trial
Step ==
    /\ pc = "step"
    /\ probs' = env_step(probs)
    /\ IF i + 1 < n_steps
       THEN i' = i + 1 /\ pc' = "optimal_reward" /\ UNCHANGED trial
       ELSE EndTrial /\ UNCHANGED i
    /\ UNCHANGED << rng, cfg, counters, scores, history, ai, optimal_reward, locals >>

\* scores[agent.name] = np.cumsum(scores[agent.name]) / n_trials, for the agent at ai
Cumsum ==
    /\ pc = "cumsum"
    /\ scores' = [scores EXCEPT ![name(agents[ai])] =
                     [val |-> np_cumsum(@.val), den |-> @.den * n_trials]]
    /\ IF ai < NAgents
       THEN ai' = ai + 1 /\ UNCHANGED pc
       ELSE ai' = ai /\ pc' = "done"
    /\ UNCHANGED << probs, rng, cfg, counters, history, trial, i, optimal_reward,
                    locals >>

Next ==
    \/ Reset
    \/ InitActions
    \/ OptimalReward
    \/ GetActionRandom
    \/ GetActionEpsilonGreedy
    \/ GetActionUCB
    \/ GetActionThompson
    \/ Pull
    \/ Update
    \/ Score
    \/ Step
    \/ Cumsum

Spec == Init /\ [][Next]_vars

\* get_regret is one synchronous loop: while a call is left to make, it is made.
FairSpec == Init /\ [][Next]_vars /\ WF_vars(Next)

----------------------------------------------------------------------------
\* The states the properties speak of.

Thompson == agents[ai] = "ThompsonSamplingAgent"

EpsilonGreedy == agents[ai] = "EpsilonGreedyAgent"

UCB == agents[ai] = "UCBAgent"

\* get_action of the agent at ai has just returned
Returned == pc = "pull"

\* EpsilonGreedyAgent.get_action took the random-exploration branch
Explored == draw * EpsilonDen < EpsilonNum * Grid

\* C1: ThompsonSamplingAgent.get_action never modifies the stored success
\* counts, failure counts or total-pulls counter: across every get_action step
\* of a Thompson agent the three are what they were.
C1_ThompsonGetActionKeepsCounters ==
    [][(pc = "get_action" /\ Thompson) =>
          /\ successes' = successes
          /\ failures' = failures
          /\ total_pulls' = total_pulls]_vars

\* C2: update(action, reward) adds one to the total-pulls counter, adds one to
\* the success count of arm `action` when reward == 1 and to its failure count
\* otherwise, and leaves the other count of that arm, the counts of every
\* other arm and every other agent as they were.
C2_UpdateEffect ==
    [][pc = "update" =>
          /\ total_pulls'[ai] = total_pulls[ai] + 1
          /\ IF reward = 1
             THEN /\ successes'[ai][action] = successes[ai][action] + 1
                  /\ failures'[ai][action] = failures[ai][action]
             ELSE /\ failures'[ai][action] = failures[ai][action] + 1
                  /\ successes'[ai][action] = successes[ai][action]
          /\ \A a \in Arms(K) \ {action} :
                /\ successes'[ai][a] = successes[ai][a]
                /\ failures'[ai][a] = failures[ai][a]
          /\ \A k \in (1 .. NAgents) \ {ai} :
                /\ successes'[k] = successes[k]
                /\ failures'[k] = failures[k]
                /\ total_pulls'[k] = total_pulls[k]]_vars

\* An arm of a two-armed bandit has been updated with a reward 1 and with a
\* reward 0, the other arm not at all.
C2_Witness ==
    /\ pc = "score"
    /\ K = 2
    /\ rec_s[ai][action] = 1
    /\ rec_f[ai][action] = 1
    /\ total_pulls[ai] = 2

\* C3: whenever EpsilonGreedyAgent.get_action computes
\* successes/(successes+failures), the divisor is non-zero for every arm.
C3_EpsilonGreedyDivisorNonZero ==
    (Returned /\ EpsilonGreedy /\ ~Explored) => \A a \in Arms(K) : den[a] # 0

\* C4: whenever UCBAgent.get_action evaluates sqrt(2*ln(total_pulls)/pulls),
\* total_pulls is at least 1 and every arm has at least one pull.
C4_UCBBonusDefined ==
    (Returned /\ UCB) => (log_arg >= 1 /\ \A a \in Arms(K) : den[a] >= 1)

\* C5 as stated: env.reset() redraws the K probabilities, taking K fresh
\* numbers from the random stream, and between two resets the vector stays as
\* it is.
C5_ResetRedraws ==
    [][/\ pc = "reset" => rng' = rng + K
       /\ pc # "reset" => probs' = probs]_vars

\* C5, amended: env.reset() draws nothing and leaves the probability vector as
\* it is; the vector drawn at construction stays fixed through every step of
\* get_regret, across the trials.
C5_ProbsFixedThroughRun ==
    [][/\ probs' = probs
       /\ pc = "reset" => rng' = rng]_vars

\* The second trial's reset has run on a bandit whose two arms differ.
C5_Witness ==
    /\ trial = 1
    /\ pc = "init_actions"
    /\ ai = 1
    /\ K = 2
    /\ probs[0] # probs[1]

\* C6: pull(action) returns 1.0 exactly when the drawn uniform value is <= the
\* arm's probability and 0.0 otherwise, and nothing but 0.0 or 1.0.
C6_PullReward ==
    pc = "update" =>
        /\ reward \in {0, 1}
        /\ reward = 1 <=> u <= probs[action]

\* pull drew exactly the arm's probability and returned 1.0
C6_Witness ==
    /\ pc = "update"
    /\ u = probs[action]
    /\ reward = 1

\* C7: optimal_reward() is the maximum of the probability vector: at least
\* the probability of every arm and equal to that of some arm; so is the value
\* get_regret holds in optimal_reward.
C7_OptimalRewardIsMax ==
    /\ K >= 1 =>
          LET m == env_optimal_reward(probs)
          IN  /\ \A a \in Arms(K) : m >= probs[a]
              /\ \E a \in Arms(K) : m = probs[a]
    /\ pc \in {"get_action", "pull", "update", "score", "step"} =>
          /\ \A a \in Arms(K) : optimal_reward >= probs[a]
          /\ \E a \in Arms(K) : optimal_reward = probs[a]

\* The best arm is not the first one.
C7_Witness ==
    /\ pc = "get_action"
    /\ K = 2
    /\ probs[0] < probs[1]
    /\ optimal_reward = probs[1]

\* C8: ThompsonSamplingAgent.get_action samples arm a from
\* Beta(s+1, f+1), s and f the numbers of rewards 1 and of rewards not 1 that
\* update recorded for the arm in this trial, and returns an arm whose sample
\* is the largest.
C8_ThompsonBetaParameters ==
    (Returned /\ Thompson) =>
        /\ \A a \in Arms(K) : beta[a] = << rec_s[ai][a] + 1, rec_f[ai][a] + 1 >>
        /\ \A a \in Arms(K) : theta[action] >= theta[a]

\* An arm has a recorded success and a recorded failure, and the second arm
\* won with the strictly larger sample.
C8_Witness ==
    /\ Returned
    /\ Thompson
    /\ K = 2
    /\ \E a \in Arms(K) : rec_s[ai][a] >= 1 /\ rec_f[ai][a] >= 1
    /\ action = 1
    /\ theta[1] > theta[0]

\* C9: outside the exploration branch EpsilonGreedyAgent.get_action returns an
\* arm whose rate successes/(successes+failures) is a number and at least the
\* rate of every arm; in the exploration branch it returns an arm in [0,K).
C9_EpsilonGreedyPicksBestRate ==
    (Returned /\ EpsilonGreedy) =>
        IF Explored
        THEN action \in Arms(K)
        ELSE \A b \in Arms(K) :
                /\ den[action] > 0
                /\ den[b] > 0
                /\ successes[ai][action] * den[b] >= successes[ai][b] * den[action]

\* C10: at the start of every trial, before its first get_action, every
\* agent's success counts, failure counts and total-pulls counter are zero.
C10_CountersZeroAtTrialStart ==
    (i = 0 /\ (pc = "optimal_reward" \/ (pc = "get_action" /\ ai = 1))) =>
        \A k \in 1 .. NAgents :
            /\ successes[k] = Zeros(K)
            /\ failures[k] = Zeros(K)
            /\ total_pulls[k] = 0

\* The second trial is about to make its first get_action.
C10_Witness ==
    /\ trial = 1
    /\ i = 0
    /\ pc = "get_action"
    /\ ai = 1
    /\ K = 2

\* C11: get_regret's order of events.  In a trial env.reset() comes first,
\* then init_actions of every agent in list order, and only then the steps.
\* In a step every agent, in list order, does get_action, then env.pull on
\* that action, then update with that action and reward, then adds
\* optimal_reward - reward to the bucket of the step under its name;
\* env.step() comes only after the last agent of the list has done so.
C11_OrderOfEvents ==
    [][/\ pc = "reset" => (pc' = "init_actions" /\ ai' = 1)
       /\ pc' = "init_actions" =>
             (pc = "reset" \/ (pc = "init_actions" /\ ai' = ai + 1))
       /\ (pc = "init_actions" /\ ai < NAgents) => pc' = "init_actions"
       /\ pc' = "optimal_reward" =>
             ((pc = "init_actions" /\ ai = NAgents) \/ pc = "step")
       /\ pc' = "get_action" =>
             \/ pc = "optimal_reward" /\ ai' = 1
             \/ pc = "score" /\ ai' = ai + 1
       /\ pc = "get_action" => (pc' = "pull" /\ ai' = ai)
       /\ pc = "pull" =>
             /\ pc' = "update"
             /\ ai' = ai
             /\ action' = action
             /\ reward' = pull(probs, action, u')
       /\ pc = "update" =>
             /\ pc' = "score"
             /\ ai' = ai
             /\ action' = action
             /\ reward' = reward
             /\ successes'[ai][action] + failures'[ai][action]
                   = successes[ai][action] + failures[ai][action] + 1
       /\ pc = "score" =>
             /\ i' = i
             /\ scores'[name(agents[ai])].val[i]
                   = scores[name(agents[ai])].val[i] + optimal_reward - Grid * reward
             /\ IF ai < NAgents
                THEN pc' = "get_action" /\ ai' = ai + 1
                ELSE pc' = "step"
       /\ pc' = "step" => (pc = "score" /\ ai = NAgents)]_vars

\* The second agent of a list of two has finished the last step of the second
\* trial.
C11_Witness ==
    /\ pc = "step"
    /\ NAgents = 2
    /\ trial = 1
    /\ i = 1
    /\ rounds[2] = 4
\* C12: for every agent get_regret returns exactly n_steps values, and the
\* value at t is the sum, over the steps 0..t and over all trials, of
\* optimal_reward - reward obtained by that agent, divided by n_trials
\* (values are numerators over scores[..].den, regrets numerators over Grid).
C12_ResultIsMeanCumulativeRegret ==
    (pc = "done" /\ n_trials >= 1) =>
        \A k \in 1 .. NAgents :
            LET e == scores[name(agents[k])]
            IN  /\ DOMAIN e.val = Arms(n_steps)
                /\ \A t \in Arms(n_steps) :
                      e.val[t] * (Grid * n_trials) = SumUpTo(regret_of[k], t) * e.den
\* C13: with an invalid configuration (no arm, no step or no trial) the run
\* ends in an error and get_regret returns nothing: whenever get_regret has
\* returned, there were at least one arm, one step and one trial.
C13_InvalidConfigurationFails ==
    pc = "done" => (K >= 1 /\ n_steps >= 1 /\ n_trials >= 1)
\* C14: pull(action), optimal_reward() and step() leave the probability
\* vector as it is, so optimal_reward() returns at every later step of a
\* trial the value it returned at the step before.
C14_EnvironmentCallsKeepProbs ==
    [][/\ pc \in {"pull", "optimal_reward", "step"} => probs' = probs
       /\ (pc = "optimal_reward" /\ i > 0 /\ pc' = "get_action") =>
             optimal_reward' = optimal_reward]_vars

\* optimal_reward() has been called for the second step of a trial, after a
\* pull and a step(), on a bandit whose two arms differ.
C14_Witness ==
    /\ pc = "get_action"
    /\ i = 1
    /\ K = 2
    /\ probs[0] # probs[1]
    /\ optimal_reward = env_optimal_reward(probs)
\* A trial has just ended: the counters are those its last step left.
TrialEnded == trial >= 1 /\ pc \in {"reset", "cumsum", "done"}

\* The arguments of get_regret, which no step changes, make every loop run.
Runnable == n_trials >= 1 /\ n_steps >= 1 /\ NAgents >= 1

\* get_regret has returned after n_trials * n_steps rounds of every agent.
Completed ==
    pc = "done" /\ \A k \in 1 .. NAgents : rounds[k] = n_trials * n_steps

\* C15 as stated: with n_trials >= 1, n_steps >= 1 and a non-empty agent list
\* get_regret eventually returns, every agent having made exactly
\* n_trials * n_steps rounds, and at the end of every trial every agent's
\* total-pulls counter is n_steps.
C15_RunsToCompletion ==
    /\ <>(Runnable => Completed)
    /\ []((Runnable /\ TrialEnded) => \A k \in 1 .. NAgents : total_pulls[k] = n_steps)

\* C15, amended: the same for a bandit with at least one arm (with no arm the
\* first optimal_reward() raises and get_regret never returns).
C15_RunsToCompletionWithArms ==
    /\ <>((Runnable /\ K >= 1) => Completed)
    /\ []((Runnable /\ K >= 1 /\ TrialEnded) =>
              \A k \in 1 .. NAgents : total_pulls[k] = n_steps)

\* get_regret has returned after two trials of two steps on two arms.
C15_Witness ==
    /\ Completed
    /\ n_trials = 2
    /\ n_steps = 2
    /\ K = 2
    /\ \A k \in 1 .. NAgents : total_pulls[k] = 2
\* C16: for every agent and every step the expected regret of the step,
\* optimal_reward minus the success probability of the arm the agent chose,
\* is >= 0.
C16_ExpectedRegretNonNegative ==
    pc \in {"pull", "update", "score"} => optimal_reward - probs[action] >= 0

\* An agent chose an arm that is strictly worse than the best one.
C16_Witness ==
    /\ pc = "score"
    /\ K = 2
    /\ optimal_reward - probs[action] > 0
\* The pulls the counts of agent k add up to.
CountedPulls(s, f) ==
    SumUpTo(s, Cardinality(DOMAIN s) - 1) + SumUpTo(f, Cardinality(DOMAIN f) - 1)

\* C18: for every agent, after any get_action and update following
\* init_actions, the total-pulls counter is the sum over the arms of
\* successes + failures, no count is negative, and within a trial (outside
\* init_actions) no count decreases.
C18_TotalPullsIsSumOfCounts ==
    [][\A k \in 1 .. NAgents :
          total_pulls'[k] # None =>
              /\ total_pulls'[k] = CountedPulls(successes'[k], failures'[k])
              /\ \A a \in Arms(K) : successes'[k][a] >= 0 /\ failures'[k][a] >= 0
              /\ pc # "init_actions" =>
                    \A a \in Arms(K) : /\ successes'[k][a] >= successes[k][a]
                                       /\ failures'[k][a] >= failures[k][a]]_vars
\* C19: the result of a run of get_regret with at least one trial and one step
\* has exactly one entry per agent of the list, and until the closing loop the
\* entry of an agent holds, step by step, the regret of that agent only (also
\* when two agents of the list bear the same name).
C19_OneEntryPerAgent ==
    /\ (pc = "done" /\ Runnable) => Cardinality(DOMAIN scores) = NAgents
    /\ pc \notin {"cumsum", "done"} =>
          \A k \in 1 .. NAgents : scores[name(agents[k])].val = regret_of[k]
\* C20: every get_action, of every agent and from every counter state of
\* get_regret (the all-zero state after init_actions too), returns an arm
\* index in [0,K), which is the index pull and update then use.
C20_ActionInRange ==
    pc \in {"pull", "update", "score"} => action \in Arms(K)

\* The greedy branch of EpsilonGreedyAgent has returned from the all-zero
\* counts of a two-armed bandit.
C20_Witness ==
    /\ Returned
    /\ EpsilonGreedy
    /\ ~Explored
    /\ K = 2
    /\ den = Zeros(2)
    /\ action \in Arms(K)

\* The pulls the agent at list position k has made of arm a in this trial.
PullsOf(k, a) == rec_s[k][a] + rec_f[k][a]

\* C21: in the first K steps of a trial UCBAgent selects arm 0, 1, .. K-1 in
\* turn (the first arm whose index is NaN), so that after j <= K pulls exactly
\* the arms below j have one pull each, and from step K+1 on every arm has
\* at least one pull when the index is evaluated.
C21_UCBWarmUp ==
    /\ \A k \in 1 .. NAgents :
          (agents[k] = "UCBAgent" /\ total_pulls[k] # None) =>
              \A a \in Arms(K) :
                  /\ total_pulls[k] <= K =>
                        PullsOf(k, a) = IF a < total_pulls[k] THEN 1 ELSE 0
                  /\ total_pulls[k] >= K => PullsOf(k, a) >= 1
    /\ (Returned /\ UCB /\ i < K) => action = i
    /\ (Returned /\ UCB /\ i >= K) => \A a \in Arms(K) : den[a] >= 1

\* UCBAgent has returned from the third step of a trial on two arms, each
\* pulled once in the two steps before.
C21_Witness ==
    /\ Returned
    /\ UCB
    /\ K = 2
    /\ i = 2
    /\ total_pulls[ai] = 2
    /\ \A a \in Arms(K) : PullsOf(ai, a) = 1 /\ den[a] = 1

====
